---- MODULE Spec2Model ----
(***************************************************************************)
(* The data-reshaping pipeline of covid-uk-dashboard: the metric           *)
(* normalizers of src/src/modules/dataframe_builder.py (Zoe, Deaths,       *)
(* Healthcare, Cases), the older Deaths normalizer of                      *)
(* src/src/covid_chart_generator.py that derives England,                 *)
(* aggregate_dataframes of src/src/modules/utils.py, the region list of    *)
(* make_default_dataframes, and the smoothing done by the chart loops of   *)
(* src/src/covid_chart_generator.py and src/src/html_chart_generator.py.   *)
(*                                                                         *)
(* A long frame (a pandas DataFrame with one row per observation) is a     *)
(* sequence of records.  A wide table (the result of pivot_table) is a     *)
(* record [index, columns, cell]: index is the sequence of row keys        *)
(* (dates), columns the sequence of column keys (regions), cell a function *)
(* from <<date, region>> to a cell.  A float cell is NaN (the empty        *)
(* tuple) or <<v>>; an int64 cell is <<k, v>> and stands for the number    *)
(* v - k * 2^63 (k is 0 or 1), which makes int64 addition exact.           *)
(* Dates are day numbers.                                                  *)
(***************************************************************************)
EXTENDS Integers, Sequences, FiniteSets, TLC

VARIABLES family, raw, out, pc

vars == <<family, raw, out, pc>>

(***************************************************************************)
(* Bounds of the model and constants of the program.                       *)
(***************************************************************************)
\* dates 1..NumDates carry the observations the model varies freely
NumDates == 2
\* most deaths rows on the dates 1..NumDates
MaxRows == 3
\* most rows of a symptom-incidence file
MaxZoeRows == 5
\* most rows of a cases or healthcare fetch
MaxApiRows == 2
\* most tables handed to aggregate_dataframes
MaxTables == 2
\* dataframe_builder.py:149  deaths_df.iloc[:-3]
DropDays == 3

Dates == 1..NumDates
\* the days after NumDates: the provisional days the deaths normalizer drops
RecentDates == (NumDates + 1)..(NumDates + DropDays)
Vals == {1, 2}
\* covid_in_pop is a float: the model counts it in halves (0.5 and 1.5)
ZoeVals == {1, 3}
\* a date as the source sends it (a string), not yet parsed: the negative of
\* its day number, so that a column of strings differs from the column of
\* the datetimes they stand for
Unparsed(d) == 0 - d
\* pd.to_datetime of one date string
ToDatetime(s) == 0 - s

NaN == <<>>
Num(v) == <<v>>
IsNum(c) == c # NaN
\* the quotient n / d as a float cell: <<q>> when it is a whole number, the
\* pair <<n, d>> otherwise
Ratio(n, d) == IF n % d = 0 THEN Num(n \div d) ELSE << n, d >>
\* numerator and denominator of a float cell that is not NaN
Numer(c) == c[1]
Denom(c) == IF Len(c) = 2 THEN c[2] ELSE 1
\* the sum of two float cells, NaN when one of them is NaN
AddCells(a, b) ==
    IF a = NaN \/ b = NaN THEN NaN
    ELSE Ratio(Numer(a) * Denom(b) + Numer(b) * Denom(a), Denom(a) * Denom(b))

(***************************************************************************)
(* Region names in the order pandas sorts them (lexicographic).            *)
(***************************************************************************)
RegionOrder ==
    << "East Midlands", "East of England", "England", "London", "Midlands",
       "North East",
       "North East and Yorkshire", "UK", "West Midlands",
       "Yorkshire and The Humber" >>

RegionRank(r) == CHOOSE i \in 1..Len(RegionOrder) : RegionOrder[i] = r

MidlandsRegions == << "East Midlands", "West Midlands" >>
NEYRegions == << "North East", "Yorkshire and The Humber" >>

(***************************************************************************)
(* Generic helpers.                                                        *)
(***************************************************************************)
Range(s) == { s[i] : i \in 1..Len(s) }

RECURSIVE SortedSeq(_)
\* the elements of a finite set of integers in ascending order
SortedSeq(S) ==
    IF S = {} THEN << >>
    ELSE LET m == CHOOSE x \in S : \A y \in S : x <= y
         IN  << m >> \o SortedSeq(S \ {m})

RECURSIVE SortedRegions(_)
\* the elements of a finite set of region names in lexicographic order
SortedRegions(S) ==
    IF S = {} THEN << >>
    ELSE LET m == CHOOSE x \in S : \A y \in S : RegionRank(x) <= RegionRank(y)
         IN  << m >> \o SortedRegions(S \ {m})

RECURSIVE SumSeq(_)
SumSeq(s) == IF s = << >> THEN 0 ELSE Head(s) + SumSeq(Tail(s))

RECURSIVE ConcatAll(_)
\* pd.concat of a list of frames, rows in list order
ConcatAll(frames) ==
    IF frames = << >> THEN << >> ELSE Head(frames) \o ConcatAll(Tail(frames))

EmptyTable == [index |-> << >>, columns |-> << >>, cell |-> << >>]

Failure(e) == [err |-> e]
Ok(t) == [err |-> "none", table |-> t]
OkRows(rows) == [err |-> "none", rows |-> rows]

(***************************************************************************)
(* pandas operations on long frames.  pivot_table reads the one column     *)
(* that is neither date nor region: column value of the frame it is given. *)
(***************************************************************************)
\* df[df.region == r]
FilterRegion(df, r) == SelectSeq(df, LAMBDA row : row.region = r)

FrameDates(df) == { df[i].date : i \in 1..Len(df) }
FrameRegions(df) == { df[i].region : i \in 1..Len(df) }

\* the value column of the rows of one (date, region) group, in row order
GroupValues(df, d, r) ==
    LET g == SelectSeq(df, LAMBDA row : row.date = d /\ row.region = r)
    IN  [i \in 1..Len(g) |-> g[i].value]

\* aggfunc="mean", the default of pivot_table: the mean of the rows of a
\* (date, region) group, its value when the group is one row
MeanOf(vs) == Ratio(SumSeq(vs), Len(vs))

RECURSIVE FirstSeen(_)
\* the dates of a frame in the order of their first row
FirstSeen(df) ==
    IF df = << >> THEN << >>
    ELSE LET init == FirstSeen(SubSeq(df, 1, Len(df) - 1))
             d == df[Len(df)].date
         IN  IF d \in Range(init) THEN init ELSE Append(init, d)

\* a pivot that makes a row of every row of the frame
Mut_PivotIndexPerRow(df) == [i \in 1..Len(df) |-> df[i].date]

\* a pivot that keeps the dates in the order of the rows
Mut_PivotIndex(df) == FirstSeen(df)

\* the row index of pivot_table: the dates of the frame, sorted
PivotIndex(df) == SortedSeq(FrameDates(df))

\* DataFrame.pivot_table(index="date", columns="region") followed by
\* columns.droplevel(0): one row per date in ascending order, one column per
\* region in lexicographic order, NaN where the frame has no row.
PivotTable(df) ==
    LET ds == FrameDates(df)
        rs == FrameRegions(df)
    IN  [index   |-> PivotIndex(df),
         columns |-> SortedRegions(rs),
         cell    |-> [k \in ds \X rs |->
                        LET vs == GroupValues(df, k[1], k[2])
                        IN  IF vs = << >> THEN NaN ELSE MeanOf(vs)]]

\* table.iloc[:-n] for n > 0: every row but the last n, by position
IlocDropLast(t, n) ==
    LET keep == IF Len(t.index) > n THEN SubSeq(t.index, 1, Len(t.index) - n)
                ELSE << >>
    IN  [index   |-> keep,
         columns |-> t.columns,
         cell    |-> [k \in Range(keep) \X Range(t.columns) |-> t.cell[k]]]

HasColumn(t, r) == r \in Range(t.columns)
HasRow(t, d) == d \in Range(t.index)
\* the cell of a table, NaN when the table has no such row or column
Cell(t, d, r) == IF HasRow(t, d) /\ HasColumn(t, r) THEN t.cell[<<d, r>>] ELSE NaN

(***************************************************************************)
(* Deaths (dataframe_builder.py)                                           *)
(***************************************************************************)
\* the deaths frame as pivot_table reads it: deaths is its value column
DeathsValues(df) ==
    [i \in 1..Len(df) |->
        [date |-> df[i].date, region |-> df[i].region, value |-> df[i].deaths]]

\* a groupby that keeps the first row of each date instead of the sum
Mut_DeathsGroupByDateSum(df, output_label) ==
    LET ds == SortedSeq(FrameDates(df))
    IN  [i \in 1..Len(ds) |->
            LET g == SelectSeq(df, LAMBDA row : row.date = ds[i])
            IN  [date |-> ds[i], region |-> output_label, deaths |-> g[1].deaths]]

\* .groupby("date").sum() and the region label: one row per date of the
\* frame, in ascending date order, holding the sum over the rows of the date
DeathsGroupByDateSum(df, output_label) ==
    LET ds == SortedSeq(FrameDates(df))
    IN  [i \in 1..Len(ds) |->
            LET g == SelectSeq(df, LAMBDA row : row.date = ds[i])
            IN  [date   |-> ds[i],
                 region |-> output_label,
                 deaths |-> SumSeq([j \in 1..Len(g) |-> g[j].deaths])]]

\* Deaths._concatenate_regions; pd.concat of an empty list raises ValueError
Deaths_concatenate_regions(big_df, input_regions, output_label) ==
    IF input_regions = << >> THEN Failure("ValueError")
    ELSE OkRows(DeathsGroupByDateSum(
            ConcatAll([i \in 1..Len(input_regions) |->
                          FilterRegion(big_df, input_regions[i])]),
            output_label))

\* deaths_df.set_index("date").append([ney, midlands]).reset_index()
DeathsWithComposites(raw_data) ==
    LET midlands == Deaths_concatenate_regions(raw_data, MidlandsRegions, "Midlands")
        ney == Deaths_concatenate_regions(raw_data, NEYRegions,
                                          "North East and Yorkshire")
    IN  raw_data \o ney.rows \o midlands.rows

\* Deaths._process_data.  On a frame of zero rows pivot_table gives an empty
\* table when the deaths column is numeric and raises DataError (no numeric
\* types to aggregate) when it has dtype object; a frame of the model does
\* not carry the dtype of an empty column, so both outcomes are kept.
Deaths_process_data(raw_data) ==
    IF raw_data = << >>
    THEN { Ok(EmptyTable), Failure("DataError") }
    ELSE { Ok(IlocDropLast(PivotTable(DeathsValues(DeathsWithComposites(raw_data))),
                           DropDays)) }

(***************************************************************************)
(* Deaths.process_data of src/src/covid_chart_generator.py: England is     *)
(* derived from the frame that already holds the composite rows.           *)
(***************************************************************************)
ChartGen_Deaths_process_data(raw_data) ==
    IF raw_data = << >>
    THEN { Ok(EmptyTable), Failure("DataError") }
    ELSE LET deaths_df == DeathsWithComposites(raw_data)
             england == DeathsGroupByDateSum(deaths_df, "England")
         IN  { Ok(IlocDropLast(PivotTable(DeathsValues(deaths_df \o england)),
                               DropDays)) }

(***************************************************************************)
(* Zoe (dataframe_builder.py)                                              *)
(***************************************************************************)
\* the incidence frame as pivot_table reads it: covid_in_pop is its value
\* column
ZoeValues(df) ==
    [i \in 1..Len(df) |->
        [date |-> df[i].date, region |-> df[i].region,
         value |-> df[i].covid_in_pop]]

\* raw_data.drop(columns=raw_data.columns.difference([...]), inplace=True)
ZoeDropColumns(raw_data) ==
    [i \in 1..Len(raw_data) |->
        [date |-> raw_data[i].date, region |-> raw_data[i].region,
         covid_in_pop |-> raw_data[i].covid_in_pop]]

\* int64 addition: <<k, v>> is v - k * 2^63, and 2 * 2^63 wraps to 0
Add64(a, b) == << (a[1] + b[1]) % 2, a[2] + b[2] >>

\* np.int64 of one float cell counted in halves: truncation toward zero; the
\* cast of NaN is undefined in C and gives -2^63 (nanCast = 1, x86) or 0
\* (nanCast = 0, ARM)
CastInt64(c, nanCast) ==
    IF c = NaN THEN << nanCast, 0 >> ELSE << 0, Numer(c) \div (2 * Denom(c)) >>

\* zoe_dataframe[label] = zoe_dataframe[a] + zoe_dataframe[b]: a new last
\* column; t is a table all of whose columns exist
ZoeAddColumn(t, label, a, b) ==
    [index   |-> t.index,
     columns |-> IF HasColumn(t, label) THEN t.columns
                 ELSE Append(t.columns, label),
     cell    |-> [k \in Range(t.index) \X (Range(t.columns) \cup {label}) |->
                    IF k[2] = label
                    THEN Add64(t.cell[<<k[1], a>>], t.cell[<<k[1], b>>])
                    ELSE t.cell[k]]]

\* the pivot, the cast and the index parse of Zoe._process_data (lines 40-46)
ZoePivot(raw_data, nanCast) ==
    LET p == PivotTable(ZoeValues(ZoeDropColumns(raw_data)))
    IN  [index   |-> p.index,
         columns |-> p.columns,
         cell    |-> [k \in DOMAIN p.cell |-> CastInt64(p.cell[k], nanCast)]]

\* Zoe._process_data: the set of results, one per outcome of the NaN cast
Zoe_process_data(raw_data) ==
    IF raw_data = << >> THEN { Failure("FileNotFoundError") }
    ELSE { LET t == ZoePivot(raw_data, nanCast)
           IN  IF ~ (HasColumn(t, "West Midlands") /\ HasColumn(t, "East Midlands"))
               THEN Failure("KeyError")
               ELSE LET m == ZoeAddColumn(t, "Midlands",
                                          "West Midlands", "East Midlands")
                    IN  IF ~ (HasColumn(m, "North East")
                              /\ HasColumn(m, "Yorkshire and The Humber"))
                        THEN Failure("KeyError")
                        ELSE Ok(ZoeAddColumn(m, "North East and Yorkshire",
                                    "North East", "Yorkshire and The Humber"))
           : nanCast \in {0, 1} }

(***************************************************************************)
(* Healthcare (dataframe_builder.py)                                       *)
(***************************************************************************)
\* Healthcare._process_data: parses the date column of the frame it is given
\* and returns that frame
Healthcare_process_data(raw_data) ==
    OkRows([i \in 1..Len(raw_data) |->
              [raw_data[i] EXCEPT !.date = ToDatetime(raw_data[i].date)]])

(***************************************************************************)
(* Cases (dataframe_builder.py)                                            *)
(***************************************************************************)
AgeOrder == << "00_59", "60+" >>
AgeRank(a) == CHOOSE i \in 1..Len(AgeOrder) : AgeOrder[i] = a

\* cases_dataframe.date = pd.to_datetime(cases_dataframe.date)
CasesParseDates(raw_data) ==
    [i \in 1..Len(raw_data) |->
        [raw_data[i] EXCEPT !.date = ToDatetime(raw_data[i].date)]]

\* Cases._expand_from_explode: one row per element of the metric list of
\* each row (every list of a fetched row holds at least one element)
Cases_expand_from_explode(raw_df) ==
    ConcatAll([i \in 1..Len(raw_df) |->
        [j \in 1..Len(raw_df[i].metric) |->
            [date   |-> raw_df[i].date,
             region |-> raw_df[i].region,
             age    |-> raw_df[i].metric[j].age,
             cases  |-> raw_df[i].metric[j].cases]]])

\* the (date, age) keys of a frame in ascending order
RECURSIVE SortedDateAge(_)
SortedDateAge(S) ==
    IF S = {} THEN << >>
    ELSE LET m == CHOOSE x \in S : \A y \in S :
                     \/ x[1] < y[1]
                     \/ x[1] = y[1] /\ AgeRank(x[2]) <= AgeRank(y[2])
         IN  << m >> \o SortedDateAge(S \ {m})

\* a groupby on the date alone: every age band gets the sum over all bands
Mut_CasesGroupByDateAgeSum(df, output_label) ==
    LET ks == SortedDateAge({ <<df[i].date, df[i].age>> : i \in 1..Len(df) })
    IN  [i \in 1..Len(ks) |->
            LET g == SelectSeq(df, LAMBDA row : row.date = ks[i][1])
            IN  [date   |-> ks[i][1],
                 region |-> output_label,
                 age    |-> ks[i][2],
                 cases  |-> SumSeq([j \in 1..Len(g) |-> g[j].cases])]]

\* .groupby(["date", "age"]).sum() and the region label
CasesGroupByDateAgeSum(df, output_label) ==
    LET ks == SortedDateAge({ <<df[i].date, df[i].age>> : i \in 1..Len(df) })
    IN  [i \in 1..Len(ks) |->
            LET g == SelectSeq(df, LAMBDA row :
                                     row.date = ks[i][1] /\ row.age = ks[i][2])
            IN  [date   |-> ks[i][1],
                 region |-> output_label,
                 age    |-> ks[i][2],
                 cases  |-> SumSeq([j \in 1..Len(g) |-> g[j].cases])]]

\* Cases._concatenate_regions; pd.concat of an empty list raises ValueError
Cases_concatenate_regions(in_df, input_regions, output_label) ==
    IF input_regions = << >> THEN Failure("ValueError")
    ELSE OkRows(CasesGroupByDateAgeSum(
            ConcatAll([i \in 1..Len(input_regions) |->
                          FilterRegion(in_df, input_regions[i])]),
            output_label))

\* a normalizer that derives England after the composites are appended
Mut_Cases_process_data(raw_data) ==
    IF raw_data = << >> THEN Failure("KeyError")
    ELSE LET exploded == Cases_expand_from_explode(CasesParseDates(raw_data))
             midlands == Cases_concatenate_regions(exploded,
                             MidlandsRegions, "Midlands")
             ney == Cases_concatenate_regions(exploded, NEYRegions,
                             "North East and Yorkshire")
             cases_dataframe == exploded \o ney.rows \o midlands.rows
             england == CasesGroupByDateAgeSum(cases_dataframe, "England")
         IN  OkRows(cases_dataframe \o england)

\* Cases._process_data; json_normalize of zero rows has no age and no cases
\* column, so selecting them raises KeyError
Cases_process_data(raw_data) ==
    IF raw_data = << >> THEN Failure("KeyError")
    ELSE LET exploded == Cases_expand_from_explode(CasesParseDates(raw_data))
             england == CasesGroupByDateAgeSum(exploded, "England")
             cases_dataframe == exploded \o england
             midlands == Cases_concatenate_regions(cases_dataframe,
                             MidlandsRegions, "Midlands")
             ney == Cases_concatenate_regions(cases_dataframe, NEYRegions,
                             "North East and Yorkshire")
         IN  OkRows(cases_dataframe \o ney.rows \o midlands.rows)

(***************************************************************************)
(* aggregate_dataframes (utils.py)                                         *)
(***************************************************************************)
\* an inner join: the dates that are rows of every table
Mut_OuterIndex(tables) ==
    SortedSeq({ d \in Range(tables[1].index) :
                  \A i \in 1..Len(tables) : d \in Range(tables[i].index) })

\* the row index of pd.concat(..., join="outer", axis=1): the index of the
\* tables when they all have the same one, else the union of their indexes
\* in ascending order
OuterIndex(tables) ==
    IF \A i \in 1..Len(tables) : tables[i].index = tables[1].index
    THEN tables[1].index
    ELSE SortedSeq(UNION { Range(tables[i].index) : i \in 1..Len(tables) })

\* a block whose region columns come out in reverse order
Mut_BlockColumns(label, t) ==
    [j \in 1..Len(t.columns) |-> << label, t.columns[Len(t.columns) + 1 - j] >>]

\* the columns of one block: (label, region) for the regions of the table
BlockColumns(label, t) == [j \in 1..Len(t.columns) |-> << label, t.columns[j] >>]

\* the blocks laid out from the last label of the mapping to the first
Mut_AggregateColumns(datasets) ==
    ConcatAll([i \in 1..Len(datasets) |->
                 BlockColumns(datasets[Len(datasets) + 1 - i].label,
                              datasets[Len(datasets) + 1 - i].table)])

\* keys=datasets.keys(): one block of columns per label, in the order of the
\* mapping
AggregateColumns(datasets) ==
    ConcatAll([i \in 1..Len(datasets) |->
                 BlockColumns(datasets[i].label, datasets[i].table)])

\* a join that fills the rows a table lacks with zero
Mut_ReindexedCell(t, d, r) ==
    IF HasRow(t, d) /\ HasColumn(t, r) THEN t.cell[<<d, r>>] ELSE Num(0)

\* the cell of a table in the joined frame: the table's own cell on the
\* dates it has a row for, NaN on the dates only other tables have
ReindexedCell(t, d, r) ==
    IF HasRow(t, d) /\ HasColumn(t, r) THEN t.cell[<<d, r>>] ELSE NaN

\* aggregate_dataframes: datasets is the dict as the sequence of its
\* (label, table) items in insertion order; pd.concat of no table raises
\* ValueError
aggregate_dataframes(datasets) ==
    IF datasets = << >> THEN Failure("ValueError")
    ELSE LET tables == [i \in 1..Len(datasets) |-> datasets[i].table]
             index == OuterIndex(tables)
             columns == AggregateColumns(datasets)
         IN  Ok([index   |-> index,
                 columns |-> columns,
                 cell    |-> [k \in Range(index) \X Range(columns) |->
                                ReindexedCell(
                                    datasets[CHOOSE i \in 1..Len(datasets) :
                                        datasets[i].label = k[2][1]].table,
                                    k[1], k[2][2])]])

(***************************************************************************)
(* The state machine.  family names the normalizer under study, raw the    *)
(* frame fetched so far (rows arrive newest first, as the API sends them), *)
(* out the result of the operation applied to raw.                         *)
(***************************************************************************)
NoOut == [op |-> "none", err |-> "none"]

Key(d, r) == d * (Len(RegionOrder) + 1) + RegionRank(r)

\* rows arrive in descending (date, region) order, one per (date, region);
\* lastKey is the key of the last row of raw
Arrives(key, lastKey) == IF raw = << >> THEN TRUE ELSE key < lastKey

ContentRows(df) == Cardinality({ i \in 1..Len(df) : df[i].date \in Dates })

DeathsRegions ==
    { "East Midlands", "West Midlands", "North East", "Yorkshire and The Humber" }

\* the rows a deaths fetch may hold: any of these regions on the dates
\* 1..NumDates, and one row on each of the provisional days after them
DeathsUniverse ==
    [date : Dates, region : DeathsRegions, deaths : Vals]
    \cup [date : RecentDates, region : {"East Midlands"}, deaths : {1}]

\* the provisional days a fetch holds are the newest ones, without a gap
RecentArrives(row) ==
    \/ row.date \in Dates
    \/ row.date = NumDates + DropDays
    \/ IF raw = << >> THEN FALSE ELSE raw[Len(raw)].date = row.date + 1

FetchDeathsRow ==
    /\ pc = "fetch"
    /\ family = "deaths"
    /\ \E row \in DeathsUniverse :
          /\ Arrives(Key(row.date, row.region),
                     Key(raw[Len(raw)].date, raw[Len(raw)].region))
          /\ RecentArrives(row)
          /\ row.date \in Dates => ContentRows(raw) < MaxRows
          /\ raw' = Append(raw, row)
    /\ UNCHANGED <<family, out, pc>>

\* a deaths fetch whose rows arrive in any order of their dates
FetchDeathsAnyOrder ==
    /\ pc = "fetch"
    /\ family = "deaths"
    /\ \E row \in [date : Dates \cup RecentDates, region : {"London"},
                    deaths : Vals] :
          /\ row.date \notin FrameDates(raw)
          /\ raw' = Append(raw, row)
    /\ UNCHANGED <<family, out, pc>>

DeathsProcess ==
    /\ pc = "fetch"
    /\ family = "deaths"
    /\ \E res \in Deaths_process_data(raw) :
          out' = [op |-> "Deaths._process_data"] @@ res
    /\ pc' = "done"
    /\ UNCHANGED <<family, raw>>

ChartGenDeathsProcess ==
    /\ pc = "fetch"
    /\ family = "deaths"
    /\ \E res \in ChartGen_Deaths_process_data(raw) :
          out' = [op |-> "Deaths.process_data"] @@ res
    /\ pc' = "done"
    /\ UNCHANGED <<family, raw>>

\* the lists of constituents a composite derivation is asked for
ConcatInputs == { << >>, MidlandsRegions, NEYRegions }

\* one composite derivation and the append of its rows to the caller's frame
\* (Deaths._process_data line 144), for any list of constituents
DeathsConcat ==
    /\ pc = "fetch"
    /\ family = "deaths"
    /\ \E input_regions \in ConcatInputs :
          LET c == Deaths_concatenate_regions(raw, input_regions, "Composite")
          IN  out' = [op |-> "Deaths._concatenate_regions",
                      input_regions |-> input_regions,
                      err |-> c.err,
                      rows |-> IF c.err = "none" THEN raw \o c.rows ELSE << >>]
    /\ pc' = "done"
    /\ UNCHANGED <<family, raw>>

ZoeRegions ==
    { "East Midlands", "West Midlands", "North East", "Yorkshire and The Humber",
      "UK" }

\* a row of the incidence file: the three columns the normalizer keeps and
\* one of the many it drops
ZoeUniverse ==
    [date : Dates, region : Range(MidlandsRegions), covid_in_pop : ZoeVals,
     population : {0}]
    \cup [date : Dates, region : ZoeRegions \ Range(MidlandsRegions),
          covid_in_pop : {3}, population : {0}]

FetchZoeRow ==
    /\ pc = "fetch"
    /\ family = "zoe"
    /\ Len(raw) < MaxZoeRows
    /\ \E row \in ZoeUniverse :
          /\ Arrives(Key(row.date, row.region),
                     Key(raw[Len(raw)].date, raw[Len(raw)].region))
          /\ raw' = Append(raw, row)
    /\ UNCHANGED <<family, out, pc>>

\* Zoe._process_data drops the other columns of the caller's frame in place
ZoeProcess ==
    /\ pc = "fetch"
    /\ family = "zoe"
    /\ \E res \in Zoe_process_data(raw) :
          out' = [op |-> "Zoe._process_data"] @@ res
    /\ raw' = ZoeDropColumns(raw)
    /\ pc' = "done"
    /\ UNCHANGED family

HealthcareRegions == { "England", "London", "Midlands" }
HealthcareVals == { NaN, Num(1) }

HealthcareUniverse ==
    [date : { Unparsed(d) : d \in Dates }, region : HealthcareRegions,
     admissions : HealthcareVals, inpatients : HealthcareVals,
     icu : HealthcareVals]

FetchHealthcareRow ==
    /\ pc = "fetch"
    /\ family = "healthcare"
    /\ Len(raw) < MaxApiRows
    /\ \E row \in HealthcareUniverse :
          /\ Arrives(Key(ToDatetime(row.date), row.region),
                     Key(ToDatetime(raw[Len(raw)].date), raw[Len(raw)].region))
          /\ raw' = Append(raw, row)
    /\ UNCHANGED <<family, out, pc>>

\* Healthcare._process_data parses the dates of the caller's frame in place
\* and returns that frame
HealthcareProcess ==
    /\ pc = "fetch"
    /\ family = "healthcare"
    /\ LET res == Healthcare_process_data(raw)
       IN  /\ out' = [op |-> "Healthcare._process_data"] @@ res
           /\ raw' = res.rows
    /\ pc' = "done"
    /\ UNCHANGED family

CasesRegions == { "East Midlands", "West Midlands", "London" }

\* the metric lists of a cases row: an entry for one age band or for both
CasesMetrics ==
    { << [age |-> a, cases |-> v] >> : a \in Range(AgeOrder), v \in Vals }
    \cup { << [age |-> "00_59", cases |-> u], [age |-> "60+", cases |-> o] >> :
             u \in Vals, o \in Vals }

CasesUniverse ==
    [date : { Unparsed(d) : d \in Dates }, region : CasesRegions,
     metric : CasesMetrics]

FetchCasesRow ==
    /\ pc = "fetch"
    /\ family = "cases"
    /\ Len(raw) < MaxApiRows
    /\ \E row \in CasesUniverse :
          /\ Arrives(Key(ToDatetime(row.date), row.region),
                     Key(ToDatetime(raw[Len(raw)].date), raw[Len(raw)].region))
          /\ raw' = Append(raw, row)
    /\ UNCHANGED <<family, out, pc>>

\* Cases._process_data parses the dates of the caller's frame in place
CasesProcess ==
    /\ pc = "fetch"
    /\ family = "cases"
    /\ out' = [op |-> "Cases._process_data"] @@ Cases_process_data(raw)
    /\ raw' = CasesParseDates(raw)
    /\ pc' = "done"
    /\ UNCHANGED family

\* one composite derivation on the exploded frame and the concatenation of
\* its rows to the caller's frame (Cases._process_data line 274)
CasesConcat ==
    /\ pc = "fetch"
    /\ family = "cases"
    /\ \E input_regions \in ConcatInputs :
          LET in_df == Cases_expand_from_explode(CasesParseDates(raw))
              c == Cases_concatenate_regions(in_df, input_regions, "Composite")
          IN  out' = [op |-> "Cases._concatenate_regions",
                      input_regions |-> input_regions,
                      in_df |-> in_df,
                      err |-> c.err,
                      rows |-> IF c.err = "none" THEN in_df \o c.rows ELSE << >>]
    /\ pc' = "done"
    /\ UNCHANGED <<family, raw>>

Families == { "zoe", "deaths", "healthcare", "cases" }

Init ==
    /\ family \in Families
    /\ raw = << >>
    /\ out = NoOut
    /\ pc = "fetch"

Next ==
    \/ FetchZoeRow
    \/ ZoeProcess
    \/ FetchDeathsRow
    \/ DeathsProcess
    \/ ChartGenDeathsProcess
    \/ DeathsConcat
    \/ FetchHealthcareRow
    \/ HealthcareProcess
    \/ FetchCasesRow
    \/ CasesProcess
    \/ CasesConcat

Spec == Init /\ [][Next]_vars

(***************************************************************************)
(* aggregate_dataframes on the mappings of up to MaxTables labels to       *)
(* canonical tables; raw is the mapping built so far.                      *)
(***************************************************************************)
\* the labels of make_default_dataframes, in its insertion order
Labels ==
    << "Zoe new infections", "Admissions", "Inpatients", "Cases >60", "Cases",
       "Deaths", "MechVent inpatients" >>

ColumnChoices == { << "England" >>, << "England", "London" >> }

\* a canonical table: rows for the dates ds, the columns cols, the value
\* fill + date in every cell but, when hole is set, NaN in the first cell
CanonicalTable(ds, cols, fill, hole) ==
    LET index == SortedSeq(ds)
    IN  [index   |-> index,
         columns |-> cols,
         cell    |-> [k \in ds \X Range(cols) |->
                        IF hole /\ k[1] = index[1] /\ k[2] = cols[1]
                        THEN NaN ELSE Num(fill + k[1])]]

AddTable ==
    /\ pc = "fetch"
    /\ family = "aggregate"
    /\ Len(raw) < MaxTables
    /\ \E ds \in SUBSET Dates, cols \in ColumnChoices, fill \in Vals,
          hole \in BOOLEAN :
          /\ hole => ds # {}
          /\ raw' = Append(raw, [label |-> Labels[Len(raw) + 1],
                                 table |-> CanonicalTable(ds, cols, fill, hole)])
    /\ UNCHANGED <<family, out, pc>>

Aggregate ==
    /\ pc = "fetch"
    /\ family = "aggregate"
    /\ out' = [op |-> "aggregate_dataframes"] @@ aggregate_dataframes(raw)
    /\ pc' = "done"
    /\ UNCHANGED <<family, raw>>

InitAgg ==
    /\ family = "aggregate"
    /\ raw = << >>
    /\ out = NoOut
    /\ pc = "fetch"

NextAgg ==
    \/ AddTable
    \/ Aggregate

SpecAgg == InitAgg /\ [][NextAgg]_vars

(***************************************************************************)
(* The deaths normalizer on fetches whose rows arrive in any order.        *)
(***************************************************************************)
InitDeathsOrder ==
    /\ family = "deaths"
    /\ raw = << >>
    /\ out = NoOut
    /\ pc = "fetch"

NextDeathsOrder ==
    \/ FetchDeathsAnyOrder
    \/ DeathsProcess

SpecDeathsOrder == InitDeathsOrder /\ [][NextDeathsOrder]_vars

(***************************************************************************)
(* Smoothing and the chart loops (covid_chart_generator.py,                *)
(* html_chart_generator.py).  to_plot is an aggregated table: its columns  *)
(* are <<label, region>> pairs.  A mean that is not a whole number is the  *)
(* pair <<sum, count>>.                                                    *)
(***************************************************************************)
\* covid_chart_generator.py:363  rolling(window=7)
Window == 7
\* the day number of START = "2020-03-01", the first day the charts show
START == 2
\* most rows of an aggregated table handed to the chart loops
MaxChartRows == 8

Max(a, b) == IF a >= b THEN a ELSE b
Min(a, b) == IF a <= b THEN a ELSE b

\* the numbers among the cells of rows lo..hi of one column
WindowValues(t, lo, hi, c) ==
    LET rows == SelectSeq([j \in 1..(hi - lo + 1) |-> t.index[lo + j - 1]],
                          LAMBDA d : IsNum(t.cell[<<d, c>>]))
    IN  [j \in 1..Len(rows) |-> t.cell[<<rows[j], c>>][1]]

\* the mean of the window that ends at row last, with the missing cells
\* counted as zero
ZeroFilledMean(t, last, window, c) ==
    LET lo == Max(1, last - window + 1)
        hi == Min(Len(t.index), last)
    IN  IF hi - lo + 1 < window THEN NaN
        ELSE Ratio(SumSeq(WindowValues(t, lo, hi, c)), window)

\* the mean of the numbers in the window that ends at row last, the window
\* cut at the ends of the table: NaN unless it holds min_periods numbers
WindowMean(t, last, window, min_periods, c) ==
    LET lo == Max(1, last - window + 1)
        hi == Min(Len(t.index), last)
        vs == WindowValues(t, lo, hi, c)
    IN  IF hi - lo + 1 < Max(min_periods, 1) THEN NaN
        ELSE IF Len(vs) < Max(min_periods, 1) THEN NaN
        ELSE Ratio(SumSeq(vs), Len(vs))

\* a rolling mean that gives a value as soon as one number is in the window
Mut_RollingMeanMinPeriods(t, window, center) ==
    [index   |-> t.index,
     columns |-> t.columns,
     cell    |-> [k \in Range(t.index) \X Range(t.columns) |->
                    LET i == CHOOSE j \in 1..Len(t.index) : t.index[j] = k[1]
                        off == IF center THEN (window - 1) \div 2 ELSE 0
                    IN  WindowMean(t, i + off, window, 1, k[2])]]

\* a rolling mean that ignores center=True
Mut_RollingMeanTrailing(t, window, center) ==
    [index   |-> t.index,
     columns |-> t.columns,
     cell    |-> [k \in Range(t.index) \X Range(t.columns) |->
                    LET i == CHOOSE j \in 1..Len(t.index) : t.index[j] = k[1]
                    IN  WindowMean(t, i, window, window, k[2])]]

\* a rolling mean over the table with its missing cells filled with zero
Mut_RollingMeanFillZero(t, window, center) ==
    [index   |-> t.index,
     columns |-> t.columns,
     cell    |-> [k \in Range(t.index) \X Range(t.columns) |->
                    LET i == CHOOSE j \in 1..Len(t.index) : t.index[j] = k[1]
                        off == IF center THEN (window - 1) \div 2 ELSE 0
                    IN  ZeroFilledMean(t, i + off, window, k[2])]]

\* a rolling mean whose window is one row too long
Mut_RollingMeanLongWindow(t, window, center) ==
    [index   |-> t.index,
     columns |-> t.columns,
     cell    |-> [k \in Range(t.index) \X Range(t.columns) |->
                    LET i == CHOOSE j \in 1..Len(t.index) : t.index[j] = k[1]
                        off == IF center THEN (window - 1) \div 2 ELSE 0
                    IN  WindowMean(t, i + off, window + 1, window + 1, k[2])]]

\* t.rolling(window=window, center=center).mean(): per column, the mean of
\* the window rows that end at the row (trailing) or at the row
\* (window - 1) // 2 places after it (centred); the window counts rows, not
\* days; min_periods is the window, so a cell is NaN unless its window holds
\* window numbers
RollingMean(t, window, center) ==
    [index   |-> t.index,
     columns |-> t.columns,
     cell    |-> [k \in Range(t.index) \X Range(t.columns) |->
                    LET i == CHOOSE j \in 1..Len(t.index) : t.index[j] = k[1]
                        off == IF center THEN (window - 1) \div 2 ELSE 0
                    IN  WindowMean(t, i + off, window, window, k[2])]]

\* to_plot[~(to_plot.index < START)]: a new table of the rows from START on
BooleanMask(t) ==
    LET keep == SelectSeq(t.index, LAMBDA d : ~(d < START))
    IN  [index   |-> keep,
         columns |-> t.columns,
         cell    |-> [k \in Range(keep) \X Range(t.columns) |-> t.cell[k]]]

\* .swaplevel(axis=1)[region]: the columns of one region, named by their
\* label, in the order of the table's columns
SwapLevelRegion(t, region) ==
    LET cols == SelectSeq(t.columns, LAMBDA c : c[2] = region)
        labels == [j \in 1..Len(cols) |-> cols[j][1]]
    IN  [index   |-> t.index,
         columns |-> labels,
         cell    |-> [k \in Range(t.index) \X Range(labels) |->
                        t.cell[<<k[1], <<k[2], region>>>>]]]

\* .reset_index().melt(id_vars=["date"]): one row per cell, column by column
Melt(t) ==
    ConcatAll([j \in 1..Len(t.columns) |->
                 [i \in 1..Len(t.index) |->
                    [date     |-> t.index[i],
                     variable |-> t.columns[j],
                     value    |-> t.cell[<<t.index[i], t.columns[j]>>]]]])

\* a loop body that stores the smoothed table back into to_plot
Mut_ChartLines(to_plot, region, center) ==
    LET rolled == RollingMean(to_plot, Window, center)
    IN  [to_plot        |-> rolled,
         rolled         |-> rolled,
         source         |-> Melt(SwapLevelRegion(BooleanMask(to_plot), region)),
         source_average |-> Melt(SwapLevelRegion(BooleanMask(rolled), region))]

\* the two data frames one iteration of a chart loop draws for a region, the
\* raw lines and the smoothed lines, and to_plot as the iteration leaves it:
\* every step of both expressions builds a new frame
ChartLines(to_plot, region, center) ==
    LET rolled == RollingMean(to_plot, Window, center)
    IN  [to_plot        |-> to_plot,
         rolled         |-> rolled,
         source         |-> Melt(SwapLevelRegion(BooleanMask(to_plot), region)),
         source_average |-> Melt(SwapLevelRegion(BooleanMask(rolled), region))]

RECURSIVE Unique(_)
\* Index.unique(): the distinct entries in the order of their first place
Unique(s) ==
    IF s = << >> THEN << >>
    ELSE LET init == Unique(SubSeq(s, 1, Len(s) - 1))
         IN  IF s[Len(s)] \in Range(init) THEN init ELSE Append(init, s[Len(s)])

\* a region list that is left in the order of the columns
Mut_RegionsToUse(columns) ==
    IF "England" \notin Range(columns) THEN Failure("ValueError")
    ELSE [err |-> "none", regions |-> Unique(columns)]

\* a region list that is returned as it is when England is not in it
Mut_RegionsToUseWithoutEngland(columns) ==
    LET regions == Unique(columns)
    IN  [err     |-> "none",
         regions |-> IF "England" \notin Range(regions) THEN regions
                     ELSE << "England" >>
                          \o SelectSeq(regions, LAMBDA r : r # "England")]

\* regions_to_use of make_default_dataframes: the distinct columns of the
\* admissions table with England popped and inserted at the front;
\* list.index raises ValueError when there is no England
RegionsToUse(columns) ==
    LET regions == Unique(columns)
    IN  IF "England" \notin Range(regions) THEN Failure("ValueError")
        ELSE [err     |-> "none",
              regions |-> << "England" >>
                          \o SelectSeq(regions, LAMBDA r : r # "England")]

(***************************************************************************)
(* The chart generators on an aggregated table; raw is to_plot, built one  *)
(* date at a time, then the loops run over regions_to_use.                 *)
(***************************************************************************)
ChartColumns ==
    << << "Admissions", "England" >>, << "Admissions", "London" >>,
       << "Inpatients", "England" >> >>

ChartVals == { NaN, Num(1), Num(2) }

\* the row of a date: a free cell, a constant cell and a cell that grows
\* with the date
ChartRow(d, v) ==
    (<<d, ChartColumns[1]>> :> v) @@ (<<d, ChartColumns[2]>> :> Num(3))
       @@ (<<d, ChartColumns[3]>> :> Num(d))

\* a calendar day between two rows that is a row of no input table
HasGap(index) == \E j \in 1..(Len(index) - 1) : index[j + 1] # index[j] + 1
HasMissing(t) == \E k \in DOMAIN t.cell : t.cell[k] = NaN

\* the tables under study have one irregularity at most: a gap or a missing
\* cell
AddDate ==
    /\ pc = "fetch"
    /\ family = "charts"
    /\ Len(raw.index) < MaxChartRows
    /\ \E step \in {1, 2}, v \in ChartVals :
          /\ step = 2 => (raw.index # << >> /\ ~HasGap(raw.index)
                          /\ ~HasMissing(raw))
          /\ v = NaN => (~HasMissing(raw) /\ ~HasGap(raw.index))
          /\ ~(step = 2 /\ v = NaN)
          /\ LET d == IF raw.index = << >> THEN 1
                      ELSE raw.index[Len(raw.index)] + step
             IN  raw' = [index   |-> Append(raw.index, d),
                         columns |-> ChartColumns,
                         cell    |-> raw.cell @@ ChartRow(d, v)]
    /\ UNCHANGED <<family, out, pc>>

\* the columns of the admissions table inside to_plot
AdmissionsColumns(t) ==
    LET cols == SelectSeq(t.columns, LAMBDA c : c[1] = "Admissions")
    IN  [j \in 1..Len(cols) |-> cols[j][2]]

\* the k-th iteration of a chart loop
LoopIteration(op, k, center, last) ==
    LET regions == RegionsToUse(AdmissionsColumns(raw)).regions
    IN  \E r \in { ChartLines(raw, regions[k], center) } :
           /\ raw' = r.to_plot
           /\ out' = [op |-> op, err |-> "none", k |-> k,
                      region |-> regions[k], rolled |-> r.rolled,
                      source |-> r.source,
                      source_average |-> r.source_average]
           /\ pc' = IF last /\ k = Len(regions) THEN "done" ELSE "charts"
           /\ UNCHANGED family

\* one iteration of the loop of individual_charts
IndividualChartsRegion ==
    /\ family = "charts"
    /\ \/ pc = "fetch" /\ LoopIteration("individual_charts", 1, FALSE, FALSE)
       \/ /\ pc = "charts"
          /\ out.op = "individual_charts"
          /\ out.k < Len(RegionsToUse(AdmissionsColumns(raw)).regions)
          /\ LoopIteration("individual_charts", out.k + 1, FALSE, FALSE)

\* one iteration of the loop of dashboard, which runs after individual_charts
DashboardRegion ==
    /\ family = "charts"
    /\ pc = "charts"
    /\ \/ /\ out.op = "individual_charts"
          /\ out.k = Len(RegionsToUse(AdmissionsColumns(raw)).regions)
          /\ LoopIteration("dashboard", 1, FALSE, TRUE)
       \/ /\ out.op = "dashboard"
          /\ LoopIteration("dashboard", out.k + 1, FALSE, TRUE)

\* the colours of the lines of an HTML chart, one per variable drawn
color_list == << "#3b84c1", "green", "red", "#9d3abd", "brown" >>

\* one iteration of the module-level loop of html_chart_generator.py; the
\* raw lines leave out the Inpatients label
HtmlChartRegion ==
    /\ family = "charts"
    /\ pc = "fetch" \/ (pc = "charts" /\ out.op = "html_chart_generator")
    /\ LET k == IF pc = "fetch" THEN 1 ELSE out.k + 1
           regions == RegionsToUse(AdmissionsColumns(raw)).regions
       IN  \E r \in { ChartLines(raw, regions[k], TRUE) } :
           LET source == SelectSeq(r.source,
                                   LAMBDA row : row.variable # "Inpatients")
               variable_list == Unique([i \in 1..Len(source) |->
                                          source[i].variable])
               held == Len(variable_list) = Len(color_list)
           IN  /\ raw' = r.to_plot
               /\ out' = [op |-> "html_chart_generator",
                          err |-> IF held THEN "none" ELSE "AssertionError",
                          k |-> k, region |-> regions[k], rolled |-> r.rolled,
                          source |-> source,
                          source_average |-> r.source_average,
                          variable_list |-> variable_list]
               /\ pc' = IF held /\ k < Len(regions) THEN "charts" ELSE "done"
    /\ UNCHANGED family

\* smooth(table, window=1, centered=False)
SmoothWindowOne ==
    /\ family = "charts"
    /\ pc = "fetch"
    /\ out' = [op |-> "rolling(window=1)", err |-> "none",
               rolled |-> RollingMean(raw, 1, FALSE)]
    /\ pc' = "done"
    /\ UNCHANGED <<family, raw>>

InitChart ==
    /\ family = "charts"
    /\ raw = [index |-> << >>, columns |-> ChartColumns, cell |-> << >>]
    /\ out = NoOut
    /\ pc = "fetch"

NextChart ==
    \/ AddDate
    \/ IndividualChartsRegion
    \/ DashboardRegion
    \/ HtmlChartRegion
    \/ SmoothWindowOne

SpecChart == InitChart /\ [][NextChart]_vars

(***************************************************************************)
(* Region selection of make_default_dataframes: the healthcare frame is    *)
(* fetched and parsed, admissions is its pivot, regions_to_use the columns *)
(* of admissions with England first.                                       *)
(***************************************************************************)
\* most rows of the healthcare frame behind a region selection
MaxAdmissionsRows == 4

\* Healthcare.metric: pivot_table(index="date", columns="region",
\* values=metric); the rows whose metric is NaN take no part, so a date or
\* a region none of whose rows has a number gets no row or column
Healthcare_metric(df, metric) ==
    LET known == SelectSeq(df, LAMBDA row : IsNum(row[metric]))
    IN  PivotTable([i \in 1..Len(known) |->
                      [date   |-> known[i].date,
                       region |-> known[i].region,
                       value  |-> known[i][metric][1]]])

AdmissionsRegions == { "East of England", "England", "London" }

AdmissionsUniverse ==
    [date : { Unparsed(d) : d \in Dates }, region : AdmissionsRegions,
     admissions : HealthcareVals, inpatients : {Num(2)}, icu : {NaN}]

FetchAdmissionsRow ==
    /\ pc = "fetch"
    /\ family = "regions"
    /\ Len(raw) < MaxAdmissionsRows
    /\ \E row \in AdmissionsUniverse :
          /\ Arrives(Key(ToDatetime(row.date), row.region),
                     Key(ToDatetime(raw[Len(raw)].date), raw[Len(raw)].region))
          /\ raw' = Append(raw, row)
    /\ UNCHANGED <<family, out, pc>>

\* make_default_dataframes up to the region list: Healthcare() parses the
\* fetched frame in place, admissions is its pivot
SelectRegions ==
    /\ pc = "fetch"
    /\ family = "regions"
    /\ LET df == Healthcare_process_data(raw).rows
           admissions == Healthcare_metric(df, "admissions")
       IN  /\ out' = [op |-> "make_default_dataframes",
                      admissions |-> admissions]
                     @@ RegionsToUse(admissions.columns)
           /\ raw' = df
    /\ pc' = "done"
    /\ UNCHANGED family

InitRegions ==
    /\ family = "regions"
    /\ raw = << >>
    /\ out = NoOut
    /\ pc = "fetch"

NextRegions ==
    \/ FetchAdmissionsRow
    \/ SelectRegions

SpecRegions == InitRegions /\ [][NextRegions]_vars

(***************************************************************************)
(* The metric views of a Cases object (Cases.metric).                      *)
(***************************************************************************)
\* cases_dataframe[cases_dataframe.age == age], the cases column as value
CasesValues(df, age) ==
    LET rows == SelectSeq(df, LAMBDA row : row.age = age)
    IN  [i \in 1..Len(rows) |->
           [date |-> rows[i].date, region |-> rows[i].region,
            value |-> rows[i].cases]]

\* the index or the columns of a sum of two frames: the common one when
\* both agree, else the sorted union
AlignedDates(a, b) == IF a = b THEN a ELSE SortedSeq(Range(a) \cup Range(b))
AlignedRegions(a, b) == IF a = b THEN a ELSE SortedRegions(Range(a) \cup Range(b))

\* a sum that counts a cell only one frame has as zero (fill_value=0)
Mut_FrameAdd(a, b) ==
    LET index == AlignedDates(a.index, b.index)
        columns == AlignedRegions(a.columns, b.columns)
    IN  [index   |-> index,
         columns |-> columns,
         cell    |-> [k \in Range(index) \X Range(columns) |->
                        LET x == Cell(a, k[1], k[2])
                            y == Cell(b, k[1], k[2])
                        IN  AddCells(IF x = NaN THEN Num(0) ELSE x,
                                     IF y = NaN THEN Num(0) ELSE y)]]

\* a + b on two tables: the rows and columns of both, a cell the sum of the
\* two cells when both tables have a number there, NaN otherwise
FrameAdd(a, b) ==
    LET index == AlignedDates(a.index, b.index)
        columns == AlignedRegions(a.columns, b.columns)
    IN  [index   |-> index,
         columns |-> columns,
         cell    |-> [k \in Range(index) \X Range(columns) |->
                        AddCells(Cell(a, k[1], k[2]), Cell(b, k[1], k[2]))]]

CaseViews == { "u60", "o60", "all_ages" }

\* Cases.metric on the frame the object holds: the three views and the one
\* chosen; the pivot of a frame without a row of an age band has no cases
\* column, so .cases raises AttributeError
Cases_metric(_dataframe, metric) ==
    IF \E age \in Range(AgeOrder) : CasesValues(_dataframe, age) = << >>
    THEN Failure("AttributeError")
    ELSE LET u60_df == PivotTable(CasesValues(_dataframe, "00_59"))
             o60_df == PivotTable(CasesValues(_dataframe, "60+"))
             choose_df == [u60 |-> u60_df, o60 |-> o60_df,
                           all_ages |-> FrameAdd(u60_df, o60_df)]
         IN  [err |-> "none", choose_df |-> choose_df,
              table |-> choose_df[metric]]

CasesBandsRegions ==
    { "East Midlands", "West Midlands", "North East", "Yorkshire and The Humber" }

\* rows of the cases API whose list holds the younger band or both bands
CasesBandsUniverse ==
    [date : { Unparsed(d) : d \in Dates }, region : CasesBandsRegions,
     metric : { << [age |-> "00_59", cases |-> u] >> : u \in {1} }
              \cup { << [age |-> "00_59", cases |-> u],
                        [age |-> "60+", cases |-> 1] >> : u \in Vals }]

FetchCasesBandsRow ==
    /\ pc = "fetch"
    /\ family = "cases.metric"
    /\ Len(raw) < MaxApiRows
    /\ \E row \in CasesBandsUniverse :
          /\ Arrives(Key(ToDatetime(row.date), row.region),
                     Key(ToDatetime(raw[Len(raw)].date), raw[Len(raw)].region))
          /\ raw' = Append(raw, row)
    /\ UNCHANGED <<family, out, pc>>

\* Cases() and one call of metric: the constructor normalizes the fetched
\* frame (and parses its dates in place), metric pivots the result
CasesMetric ==
    /\ pc = "fetch"
    /\ family = "cases.metric"
    /\ \E metric \in CaseViews :
          LET made == Cases_process_data(raw)
          IN  out' = IF made.err # "none"
                     THEN [op |-> "Cases.metric", metric |-> metric] @@ made
                     ELSE [op |-> "Cases.metric", metric |-> metric]
                          @@ Cases_metric(made.rows, metric)
    /\ raw' = CasesParseDates(raw)
    /\ pc' = "done"
    /\ UNCHANGED family

InitCasesMetric ==
    /\ family = "cases.metric"
    /\ raw = << >>
    /\ out = NoOut
    /\ pc = "fetch"

NextCasesMetric ==
    \/ FetchCasesBandsRow
    \/ CasesMetric

SpecCasesMetric == InitCasesMetric /\ [][NextCasesMetric]_vars

(***************************************************************************)
(* The search for the latest symptom-incidence file (Zoe._step_back).      *)
(* A date is the number of days it lies before today; raw is the world    *)
(* the search runs in: the dates that have a file, and what goes wrong     *)
(* when a file is read.                                                    *)
(***************************************************************************)
\* range(10)
Probes == 10

\* the oldest file the bucket may hold, in days before today
MaxFileAge == 10

\* "none": files read fine; "ImportError": gcsfs is not installed, so every
\* read_csv of a gs:// path raises; "EmptyDataError": the files hold no
\* columns, so read_csv of an existing one raises
ReadFaults == { "none", "ImportError", "EmptyDataError" }

StepBackWorlds == [files : SUBSET (0..MaxFileAge), fault : ReadFaults]

\* the search starts at yesterday
Mut_try_date(i) == i + 1

\* today - timedelta(days=i), as days before today
try_date(i) == i

\* the frame read_csv makes of the file of a date
ZoeFile(d) == [file |-> d]

\* one pass of the loop body whose try swallows ImportError as well as
\* FileNotFoundError
Mut_ProbeOutcome(world, i) ==
    IF world.fault = "ImportError" THEN [kind |-> "continue"]
    ELSE IF try_date(i) \notin world.files THEN [kind |-> "continue"]
    ELSE IF world.fault = "EmptyDataError"
         THEN [kind |-> "raise", err |-> "EmptyDataError"]
    ELSE [kind |-> "return", table |-> ZoeFile(try_date(i))]

\* one pass of the loop body: the read returns the frame, or raises
\* ImportError (re-raised), FileNotFoundError (caught, next date) or
\* another error (not caught)
ProbeOutcome(world, i) ==
    IF world.fault = "ImportError"
    THEN [kind |-> "raise", err |-> "ImportError"]
    ELSE IF try_date(i) \notin world.files THEN [kind |-> "continue"]
    ELSE IF world.fault = "EmptyDataError"
         THEN [kind |-> "raise", err |-> "EmptyDataError"]
    ELSE [kind |-> "return", table |-> ZoeFile(try_date(i))]

\* one iteration of for i in range(10)
Probe ==
    /\ pc = "probe"
    /\ out.i < Probes
    /\ LET o == ProbeOutcome(raw, out.i)
           probed == Append(out.probed, try_date(out.i))
       IN  IF o.kind = "continue"
           THEN /\ out' = [out EXCEPT !.i = @ + 1, !.probed = probed]
                /\ pc' = pc
           ELSE /\ out' = [op |-> "Zoe._step_back", i |-> out.i,
                           probed |-> probed,
                           err |-> IF o.kind = "raise" THEN o.err ELSE "none",
                           table |-> IF o.kind = "return" THEN o.table
                                     ELSE EmptyTable]
                /\ pc' = "done"
    /\ UNCHANGED <<family, raw>>

\* the loop ran out: raise FileNotFoundError("couldn't get Zoe data :(")
Exhausted ==
    /\ pc = "probe"
    /\ out.i = Probes
    /\ out' = [out EXCEPT !.err = "FileNotFoundError"]
    /\ pc' = "done"
    /\ UNCHANGED <<family, raw>>

InitStepBack ==
    /\ family = "zoe.step_back"
    /\ raw \in StepBackWorlds
    /\ out = [op |-> "Zoe._step_back", i |-> 0, probed |-> << >>,
              err |-> "none", table |-> EmptyTable]
    /\ pc = "probe"

NextStepBack ==
    \/ Probe
    \/ Exhausted

SpecStepBack == InitStepBack /\ [][NextStepBack]_vars

(***************************************************************************)
(* A run of a chart generator: the four sources are built in turn, the     *)
(* regions are chosen, the tables are aggregated, and only then the chart  *)
(* loops save their files.  raw is the world of the run: the generator,    *)
(* where each source goes wrong, and whether the admissions table has an   *)
(* England column.                                                         *)
(***************************************************************************)
\* Zoe().dataframe(), Deaths().dataframe(), Healthcare(), Cases()
BuildOrder == << "zoe", "deaths", "healthcare", "cases" >>

\* a source is built, or its fetch raises, or its normalizer raises
SourceOutcomes == { "ok", "fetch", "normalize" }

Generators == { "html_chart_generator", "covid_chart_generator" }

RunWorlds ==
    [generator : Generators, england : BOOLEAN,
     zoe : SourceOutcomes, deaths : SourceOutcomes,
     healthcare : SourceOutcomes, cases : SourceOutcomes]

\* the regions charted when the run gets that far
RunRegions == << "England", "London" >>

\* the files of a run: one per region, and the dashboard of the png generator
RunFiles(generator) ==
    [k \in 1..Len(RunRegions) |-> <<generator, RunRegions[k]>>]
    \o (IF generator = "covid_chart_generator"
        THEN << <<generator, "KeyRegionalData.png">> >> ELSE << >>)

\* a builder that logs the error of a source and goes on without it
Mut_BuildSource(world, source) ==
    [err |-> "none", fetched |-> world[source] # "fetch",
     normalized |-> world[source] = "ok"]

\* self._process_data(self.fetch_raw_data()): an error of either leaves the
\* call, nothing catches it
BuildSource(world, source) ==
    [err |-> IF world[source] = "ok" THEN "none" ELSE world[source],
     fetched |-> world[source] # "fetch",
     normalized |-> world[source] = "ok"]

\* the next source of make_default_dataframes (or of __main__)
RunBuild ==
    /\ pc = "build"
    /\ Len(out.built) < Len(BuildOrder)
    /\ LET source == BuildOrder[Len(out.built) + 1]
           b == BuildSource(raw, source)
       IN  /\ out' = [out EXCEPT !.built = Append(@, source),
                                 !.fetched = IF b.fetched THEN @ \cup {source} ELSE @,
                                 !.normalized = IF b.normalized THEN @ \cup {source} ELSE @,
                                 !.err = b.err]
           /\ pc' = IF b.err = "none" THEN "build" ELSE "done"
    /\ UNCHANGED <<family, raw>>

\* the region list (ValueError without an England column), then
\* aggregate_dataframes; the caller gets both or the error
RunAggregate ==
    /\ pc = "build"
    /\ Len(out.built) = Len(BuildOrder)
    /\ IF raw.england
       THEN /\ out' = [out EXCEPT !.aggregated = TRUE]
            /\ pc' = "charts"
       ELSE /\ out' = [out EXCEPT !.err = "ValueError"]
            /\ pc' = "done"
    /\ UNCHANGED <<family, raw>>

\* one save(chart, filename) or savefig of the chart loops
RunSave ==
    /\ family = "run"
    /\ pc = "charts"
    /\ LET files == RunFiles(raw.generator)
       IN  /\ Len(out.files) < Len(files)
           /\ out' = [out EXCEPT !.files = Append(@, files[Len(@) + 1])]
           /\ pc' = IF Len(out.files) + 1 = Len(files) THEN "done" ELSE "charts"
    /\ UNCHANGED <<family, raw>>

InitRun ==
    /\ family = "run"
    /\ raw \in RunWorlds
    /\ out = [op |-> "run", built |-> << >>, fetched |-> {}, normalized |-> {},
              aggregated |-> FALSE, err |-> "none", files |-> << >>]
    /\ pc = "build"

NextRun ==
    \/ RunBuild
    \/ RunAggregate
    \/ RunSave

SpecRun == InitRun /\ [][NextRun]_vars

(***************************************************************************)
(* Raw frames that hold more than one row for a (date, region[, age        *)
(* band]): a full frame of a source, to which rows of keys it already      *)
(* holds are appended before the normalizer or the metric view runs.       *)
(***************************************************************************)
MaxDuplicates == 2

DupFamilies == { "zoe", "deaths", "regions", "cases.metric" }

DupDates(f) == IF f = "deaths" THEN Dates \cup RecentDates ELSE Dates

DupRegions(f) ==
    CASE f = "zoe" -> ZoeRegions \ {"UK"}
      [] f = "deaths" -> Range(MidlandsRegions)
      [] f = "regions" -> { "England", "London" }
      [] f = "cases.metric" -> Range(MidlandsRegions)

\* a row of the raw frame of a source, v its value
DupRow(f, d, r, v) ==
    CASE f = "zoe" ->
            [date |-> d, region |-> r, covid_in_pop |-> v, population |-> 0]
      [] f = "deaths" -> [date |-> d, region |-> r, deaths |-> v]
      [] f = "regions" ->
            [date |-> Unparsed(d), region |-> r, admissions |-> Num(v),
             inpatients |-> Num(2), icu |-> NaN]
      [] f = "cases.metric" ->
            [date |-> Unparsed(d), region |-> r,
             metric |-> << [age |-> "00_59", cases |-> v],
                           [age |-> "60+", cases |-> 1] >>]

\* the frame with one row of value 1 per date and region
FullFrame(f) ==
    LET ds == SortedSeq(DupDates(f))
        rs == SortedRegions(DupRegions(f))
    IN  [i \in 1..(Len(ds) * Len(rs)) |->
            DupRow(f, ds[((i - 1) \div Len(rs)) + 1],
                   rs[((i - 1) % Len(rs)) + 1], 1)]

\* the source sends one more row for a date and region it sent already
FetchDuplicate ==
    /\ pc = "fetch"
    /\ family \in DupFamilies
    /\ Len(raw) < Len(FullFrame(family)) + MaxDuplicates
    /\ \E d \in DupDates(family), r \in DupRegions(family), v \in ZoeVals :
          raw' = Append(raw, DupRow(family, d, r, v))
    /\ UNCHANGED <<family, out, pc>>

InitDup ==
    /\ family \in DupFamilies
    /\ raw = FullFrame(family)
    /\ out = NoOut
    /\ pc = "fetch"

NextDup ==
    \/ FetchDuplicate
    \/ ZoeProcess
    \/ DeathsProcess
    \/ SelectRegions
    \/ CasesMetric

SpecDup == InitDup /\ [][NextDup]_vars

(***************************************************************************)
(* Healthcare and Cases objects.  raw is the object and the API behind it: *)
(* api the frames the API holds, calls the calls made to it so far,        *)
(* _dataframe the frame the object keeps.  out.history lists the metric    *)
(* calls made on the object and what each returned.                        *)
(***************************************************************************)
MaxMetricCalls == 3

ObjectClasses == { "Healthcare", "Cases" }

\* the source family whose rows an API call of the class returns
RowFamily(class) == IF class = "Healthcare" THEN "regions" ELSE "cases.metric"

\* the callnames of fetch_raw_data, in order, and the region each one's
\* frame holds here
ApiCalls(class) ==
    IF class = "Healthcare"
    THEN << [callname |-> "healthcare (regions)", region |-> "London"],
            [callname |-> "healthcare (england)", region |-> "England"] >>
    ELSE << [callname |-> "cases", region |-> "East Midlands"] >>

\* the frames a call may return: a row for each of the first n dates
ApiFrames(class, region) ==
    UNION { { [i \in 1..n |-> DupRow(RowFamily(class), i, region, vs[i])] :
                vs \in [1..n -> ZoeVals] } : n \in 1..NumDates }

\* what the API holds: a frame for every call of the class
ApiWorlds(class) ==
    { api \in [1..Len(ApiCalls(class)) ->
                 UNION { ApiFrames(class, ApiCalls(class)[k].region) :
                           k \in 1..Len(ApiCalls(class)) }] :
        \A k \in 1..Len(ApiCalls(class)) :
           api[k] \in ApiFrames(class, ApiCalls(class)[k].region) }

\* self.dataframe(): every call of fetch_raw_data is made, the frames are
\* concatenated and normalized
Object_dataframe(obj, class) ==
    LET fetched == ConcatAll(obj.api)
        made == IF class = "Healthcare" THEN Healthcare_process_data(fetched)
                ELSE Cases_process_data(fetched)
    IN  [api |-> obj.api,
         calls |-> obj.calls
                   \o [k \in 1..Len(ApiCalls(class)) |-> ApiCalls(class)[k].callname],
         _dataframe |-> made.rows]

MetricNames(class) ==
    IF class = "Healthcare" THEN { "admissions", "inpatients", "icu" }
    ELSE CaseViews

\* the pivot of the frame an object holds
MetricTable(obj, class, metric) ==
    IF class = "Healthcare" THEN Healthcare_metric(obj._dataframe, metric)
    ELSE Cases_metric(obj._dataframe, metric).table

\* a metric that builds the frame again on every call
Mut_Object_metric(obj, class, metric) ==
    LET again == Object_dataframe(obj, class)
    IN  [obj |-> again, table |-> MetricTable(again, class, metric)]

\* obj.metric(metric): reads self._dataframe, leaves the object as it is
Object_metric(obj, class, metric) ==
    [obj |-> obj, table |-> MetricTable(obj, class, metric)]

\* Healthcare() or Cases(): self._dataframe = self.dataframe()
Construct ==
    /\ pc = "new"
    /\ family \in ObjectClasses
    /\ raw' = Object_dataframe(raw, family)
    /\ pc' = "ready"
    /\ UNCHANGED <<family, out>>

\* one more call of metric on the object
MetricCall ==
    /\ pc = "ready"
    /\ family \in ObjectClasses
    /\ Len(out.history) < MaxMetricCalls
    /\ \E metric \in MetricNames(family) :
          LET m == Object_metric(raw, family, metric)
          IN  /\ raw' = m.obj
              /\ out' = [out EXCEPT !.history =
                            Append(@, [metric |-> metric, table |-> m.table])]
    /\ UNCHANGED <<family, pc>>

InitObject ==
    /\ family \in ObjectClasses
    /\ \E api \in ApiWorlds(family) :
          raw = [api |-> api, calls |-> << >>, _dataframe |-> << >>]
    /\ out = [op |-> "metric", err |-> "none", history |-> << >>]
    /\ pc = "new"

NextObject ==
    \/ Construct
    \/ MetricCall

SpecObject == InitObject /\ [][NextObject]_vars

(***************************************************************************)
(* The HTML chart loop on the table make_default_dataframes returns: seven *)
(* labels, each with its own region columns.                               *)
(***************************************************************************)
\* the keys of the dict make_default_dataframes aggregates, in order
DefaultLabels ==
    << "Zoe new infections", "Admissions", "Inpatients", "Cases >60", "Cases",
       "Deaths", "MechVent inpatients" >>

\* the region columns a metric table may have
HtmlColumnChoices == { << "England" >>, << "England", "London" >>, << "London" >> }

\* to_plot, regions_to_use = make_default_dataframes(): the call returned,
\* so the admissions table has an England column
InitHtml ==
    /\ family = "charts"
    /\ \E cols \in [1..Len(DefaultLabels) -> HtmlColumnChoices] :
          /\ "England" \in Range(cols[2])
          /\ raw = aggregate_dataframes(
                      [i \in 1..Len(DefaultLabels) |->
                          [label |-> DefaultLabels[i],
                           table |-> CanonicalTable(Dates, cols[i], 1, FALSE)]]).table
    /\ out = NoOut
    /\ pc = "fetch"

NextHtml == HtmlChartRegion

SpecHtml == InitHtml /\ [][NextHtml]_vars

(***************************************************************************)
(* Properties.                                                             *)
(***************************************************************************)
Returned(op) == pc = "done" /\ out.op = op /\ out.err = "none"

\* composite cell = sum of the two constituent cells, float columns
FloatCompositeIsSum(t, d, c, a, b) ==
    (IsNum(Cell(t, d, a)) /\ IsNum(Cell(t, d, b)))
        => Cell(t, d, c) = Num(Cell(t, d, a)[1] + Cell(t, d, b)[1])

\* composite cell = sum of the two constituent cells, int64 columns
Int64CompositeIsSum(t, d, c, a, b) ==
    (IsNum(Cell(t, d, a)) /\ IsNum(Cell(t, d, b)))
        => Cell(t, d, c) = Add64(Cell(t, d, a), Cell(t, d, b))

C2_CompositeMissingWhenConstituentMissing ==
    /\ Returned("Deaths._process_data") =>
          \A d \in Range(out.table.index) :
             /\ (Cell(out.table, d, "East Midlands") = NaN
                 \/ Cell(out.table, d, "West Midlands") = NaN)
                   => Cell(out.table, d, "Midlands") = NaN
             /\ (Cell(out.table, d, "North East") = NaN
                 \/ Cell(out.table, d, "Yorkshire and The Humber") = NaN)
                   => Cell(out.table, d, "North East and Yorkshire") = NaN
    /\ Returned("Cases._process_data") =>
          \A i \in 1..Len(out.rows) :
             out.rows[i].region = "Midlands" =>
                \A r \in Range(MidlandsRegions) :
                   \E j \in 1..Len(out.rows) :
                      /\ out.rows[j].region = r
                      /\ out.rows[j].date = out.rows[i].date
                      /\ out.rows[j].age = out.rows[i].age

RECURSIVE SumCells(_, _, _)
\* the sum of the cells of the columns S of row d of a float table
SumCells(t, d, S) ==
    IF S = {} THEN 0
    ELSE LET r == CHOOSE x \in S : TRUE
         IN  Cell(t, d, r)[1] + SumCells(t, d, S \ {r})

\* C3 (as claimed): in the table returned by the deaths normalizer that
\* derives England, on every retained date on which all base regions have a
\* value, England = the sum of the base regions, each counted once.
C3_EnglandIsSumOfBaseRegions ==
    Returned("Deaths.process_data") =>
       \A d \in Range(out.table.index) :
          (\A r \in FrameRegions(raw) : IsNum(Cell(out.table, d, r)))
             => Cell(out.table, d, "England")
                   = Num(SumCells(out.table, d, FrameRegions(raw)))

CasesRowsAt(rows, d, r, a) ==
    SelectSeq(rows, LAMBDA row : row.date = d /\ row.region = r /\ row.age = a)

CasesCounts(rows, d, r, a) == { row.cases : row \in Range(CasesRowsAt(rows, d, r, a)) }

RECURSIVE SumRegionCases(_, _, _, _)
\* the sum over the regions S of the case counts of the rows of (d, a)
SumRegionCases(rows, S, d, a) ==
    IF S = {} THEN 0
    ELSE LET r == CHOOSE x \in S : TRUE
         IN  CasesRowsAt(rows, d, r, a)[1].cases
                + SumRegionCases(rows, S \ {r}, d, a)

\* C4: in the rows returned by Cases._process_data, for every (date, age
\* band) on which all base regions of the raw input have a row, there is one
\* England row and its case count is the sum of the base regions' counts.
C4_CasesEnglandIsSumOfBase ==
    Returned("Cases._process_data") =>
       \A d \in Dates, a \in Range(AgeOrder) :
          (\A r \in FrameRegions(raw) : CasesRowsAt(out.rows, d, r, a) # << >>)
             => /\ Len(CasesRowsAt(out.rows, d, "England", a)) = 1
                /\ CasesRowsAt(out.rows, d, "England", a)[1].cases
                      = SumRegionCases(out.rows, FrameRegions(raw), d, a)

\* England = East Midlands + London next to a Midlands row of another value
C4_Witness ==
    /\ Returned("Cases._process_data")
    /\ FrameRegions(raw) = { "East Midlands", "London" }
    /\ \E d \in Dates :
          /\ CasesCounts(out.rows, d, "East Midlands", "00_59") = {1}
          /\ CasesCounts(out.rows, d, "London", "00_59") = {2}
          /\ CasesCounts(out.rows, d, "England", "00_59") = {3}
          /\ CasesCounts(out.rows, d, "Midlands", "00_59") = {1}

\* C5: for a raw deaths table with n >= 3 distinct dates, in any row order,
\* Deaths._process_data returns the n - 3 earliest dates in ascending order.
C5_DropsLastThreeDates ==
    Returned("Deaths._process_data") =>
       LET n == Cardinality(FrameDates(raw))
       IN  n >= DropDays =>
              out.table.index = SubSeq(SortedSeq(FrameDates(raw)), 1, n - DropDays)

\* five dates fetched out of order, with a gap, give the two earliest
C5_Witness ==
    /\ Returned("Deaths._process_data")
    /\ Len(raw) = 5
    /\ raw[1].date = 3
    /\ raw[2].date = 5
    /\ raw[3].date = 1
    /\ out.table.index = << 1, 2 >>

\* C6: the table returned by Zoe._process_data never has a column for the
\* UK, also when the raw input holds rows of the UK.
C6_NoNationColumn ==
    Returned("Zoe._process_data") => ~ HasColumn(out.table, "UK")

NormalizerOps ==
    { "Zoe._process_data", "Deaths._process_data", "Healthcare._process_data",
      "Cases._process_data" }

\* C7 (as claimed): every normalizer called with a raw table of zero rows
\* fails with an error and returns no table.
C7_EmptySourceRaises ==
    (pc = "done" /\ out.op \in NormalizerOps /\ raw = << >>) => out.err # "none"

\* C8 (as claimed): when a constituent of a composite occurs nowhere in the
\* input, the normalizer fails with an error.
C8_MissingConstituentRaises ==
    (/\ pc = "done"
     /\ out.op \in { "Zoe._process_data", "Deaths._process_data",
                     "Cases._process_data" }
     /\ raw # << >>
     /\ \E r \in Range(MidlandsRegions) \cup Range(NEYRegions) :
           r \notin FrameRegions(raw))
        => out.err # "none"

\* C9 (as claimed): composite derivation with an empty list of constituents
\* completes without error and the caller's table is the input unchanged.
C9_EmptyListLeavesTableUnchanged ==
    /\ (pc = "done" /\ out.op = "Deaths._concatenate_regions"
        /\ out.input_regions = << >>)
          => (out.err = "none" /\ out.rows = raw)
    /\ (pc = "done" /\ out.op = "Cases._concatenate_regions"
        /\ out.input_regions = << >>)
          => (out.err = "none" /\ out.rows = out.in_df)

\* C10: the date rows of aggregate_dataframes(mapping) are the union of the
\* date indexes of the input tables.
C10_OuterJoinIndexIsUnion ==
    Returned("aggregate_dataframes") =>
       Range(out.table.index)
          = UNION { Range(raw[i].table.index) : i \in 1..Len(raw) }

\* two tables none of whose indexes holds the other's date
C10_Witness ==
    /\ Returned("aggregate_dataframes")
    /\ Len(raw) = 2
    /\ raw[1].table.index = << 1 >>
    /\ raw[2].table.index = << 2 >>
    /\ out.table.index = << 1, 2 >>

\* the table the mapping holds under a label
TableOf(label) == raw[CHOOSE i \in 1..Len(raw) : raw[i].label = label].table
\* the position of a label in the mapping
LabelPos(label) == CHOOSE i \in 1..Len(raw) : raw[i].label = label

\* C11: in the table aggregate_dataframes returns, a cell (date, label,
\* region) whose date is not a row of the label's table is missing (NaN, not
\* zero), and a cell whose date is a row of the label's table holds the
\* table's own cell.
C11_AbsentDatesMissingOthersUnchanged ==
    Returned("aggregate_dataframes") =>
       \A d \in Range(out.table.index), c \in Range(out.table.columns) :
          LET t == TableOf(c[1])
          IN  IF HasRow(t, d)
              THEN out.table.cell[<<d, c>>] = t.cell[<<d, c[2]>>]
              ELSE out.table.cell[<<d, c>>] = NaN

\* the first table has a row for day 1 only, the second for day 2 only
C11_Witness ==
    /\ Returned("aggregate_dataframes")
    /\ Len(raw) = 2
    /\ raw[1].table.index = << 1 >>
    /\ raw[2].table.index = << 2 >>
    /\ raw[1].table.cell[<<1, "England">>] = Num(2)
    /\ out.table.cell[<<1, <<Labels[1], "England">>>>] = Num(2)
    /\ out.table.cell[<<2, <<Labels[1], "England">>>>] = NaN

\* C12: round trip.  For a mapping of one label L to a table T, the block L
\* of the aggregated table has the dates of T, the region columns of T and
\* the cells of T.
C12_SingleTableRoundTrip ==
    (Returned("aggregate_dataframes") /\ Len(raw) = 1) =>
       LET T == raw[1].table
           L == raw[1].label
           block == SelectSeq(out.table.columns, LAMBDA c : c[1] = L)
       IN  /\ out.table.index = T.index
           /\ [j \in 1..Len(block) |-> block[j][2]] = T.columns
           /\ \A d \in Range(T.index), r \in Range(T.columns) :
                 out.table.cell[<<d, <<L, r>>>>] = T.cell[<<d, r>>]

\* one table of two dates and two regions with a missing cell
C12_Witness ==
    /\ Returned("aggregate_dataframes")
    /\ Len(raw) = 1
    /\ raw[1].table.index = << 1, 2 >>
    /\ raw[1].table.columns = << "England", "London" >>
    /\ raw[1].table.cell[<<1, "England">>] = NaN
    /\ out.table.cell[<<1, <<Labels[1], "England">>>>] = NaN
    /\ out.table.cell[<<2, <<Labels[1], "London">>>>] = Num(3)

\* C13: the columns of the aggregated table are exactly the pairs (label,
\* region) with region a column of the label's table, each once, the block
\* of a label placed before the blocks of the labels inserted after it; a
\* mapping of tables with different region sets is accepted.
C13_ColumnsAreLabelBlocksInInsertionOrder ==
    (pc = "done" /\ out.op = "aggregate_dataframes" /\ raw # << >>) =>
       /\ out.err = "none"
       /\ LET cols == out.table.columns
          IN  /\ Range(cols)
                   = UNION { { << raw[i].label, r >> :
                                 r \in Range(raw[i].table.columns) } :
                             i \in 1..Len(raw) }
              /\ Len(cols) = Cardinality(Range(cols))
              /\ \A j \in 1..Len(cols), k \in 1..Len(cols) :
                    j < k => LabelPos(cols[j][1]) <= LabelPos(cols[k][1])

\* two tables with different region sets
C13_Witness ==
    /\ Returned("aggregate_dataframes")
    /\ Len(raw) = 2
    /\ raw[1].table.columns = << "England", "London" >>
    /\ raw[2].table.columns = << "England" >>
    /\ out.table.columns
          = << << Labels[1], "England" >>, << Labels[1], "London" >>,
               << Labels[2], "England" >> >>

TrailingOps == { "individual_charts", "dashboard" }
AdmEngland == << "Admissions", "England" >>

\* rows lo..hi of column c hold no missing cell
WindowComplete(t, lo, hi, c) ==
    \A j \in lo..hi : IsNum(t.cell[<<t.index[j], c>>])
\* the sum of rows lo..hi of column c
WindowSum(t, lo, hi, c) ==
    SumSeq([j \in 1..(hi - lo + 1) |-> t.cell[<<t.index[lo + j - 1], c>>][1]])

\* C14: trailing smoothing with window 7.  In to_plot.rolling(window=7)
\* .mean(), the cell of each of the first 6 rows is missing, and the cell of
\* a later row whose window of 7 rows holds no missing cell is the mean of
\* the column over that row and the 6 rows before it.
C14_TrailingMeanOfSevenRows ==
    (out.op \in TrailingOps) =>
       \A c \in Range(raw.columns), i \in 1..Len(raw.index) :
          LET cell == out.rolled.cell[<<raw.index[i], c>>]
          IN  /\ i < Window => cell = NaN
              /\ (i >= Window /\ WindowComplete(raw, i - Window + 1, i, c))
                    => cell = Ratio(WindowSum(raw, i - Window + 1, i, c),
                                    Window)

\* eight days 1,1,1,1,1,1,2,2: the 7th row is 8/7, the 8th 9/7
C14_Witness ==
    /\ out.op = "individual_charts"
    /\ raw.index = << 1, 2, 3, 4, 5, 6, 7, 8 >>
    /\ ~HasMissing(raw)
    /\ out.rolled.cell[<<6, AdmEngland>>] = NaN
    /\ out.rolled.cell[<<7, AdmEngland>>] = << 8, 7 >>
    /\ out.rolled.cell[<<8, AdmEngland>>] = << 9, 7 >>
    /\ out.rolled.cell[<<8, << "Admissions", "London" >>>>] = Num(3)

\* C15: centred smoothing with window 7.  In to_plot.rolling(window=7,
\* center=True).mean(), the cells of the first 3 and of the last 3 rows are
\* missing, and the cell of a row between them whose window holds no
\* missing cell is the mean of the column over the 3 rows before it, the
\* row and the 3 rows after it.
C15_CentredMeanOfSevenRows ==
    (out.op = "html_chart_generator") =>
       \A c \in Range(raw.columns), i \in 1..Len(raw.index) :
          LET cell == out.rolled.cell[<<raw.index[i], c>>]
              n == Len(raw.index)
          IN  /\ (i <= 3 \/ i > n - 3) => cell = NaN
              /\ (i > 3 /\ i <= n - 3 /\ WindowComplete(raw, i - 3, i + 3, c))
                    => cell = Ratio(WindowSum(raw, i - 3, i + 3, c), Window)

\* eight days 1,1,1,1,1,1,2,2: the 4th row is 8/7, the 5th 9/7
C15_Witness ==
    /\ out.op = "html_chart_generator"
    /\ raw.index = << 1, 2, 3, 4, 5, 6, 7, 8 >>
    /\ ~HasMissing(raw)
    /\ out.rolled.cell[<<3, AdmEngland>>] = NaN
    /\ out.rolled.cell[<<4, AdmEngland>>] = << 8, 7 >>
    /\ out.rolled.cell[<<5, AdmEngland>>] = << 9, 7 >>
    /\ out.rolled.cell[<<6, AdmEngland>>] = NaN

\* C16: every smoothed cell that holds a mean is the mean over 7
\* consecutive calendar days: the first and the last row of its window are
\* 6 days apart.
C16_WindowSpansSevenDays ==
    (out.op \in TrailingOps \cup { "html_chart_generator" }) =>
       \A c \in Range(raw.columns), i \in 1..Len(raw.index) :
          out.rolled.cell[<<raw.index[i], c>>] # NaN =>
             LET last == IF out.op = "html_chart_generator" THEN i + 3 ELSE i
             IN  raw.index[last] - raw.index[last - Window + 1] = Window - 1

\* C17: a smoothed cell whose window of 7 rows holds a missing cell of the
\* aggregated table is missing, in the trailing and in the centred mode.
C17_MissingCellInWindowGivesMissing ==
    (out.op \in TrailingOps \cup { "html_chart_generator" }) =>
       \A c \in Range(raw.columns), i \in 1..Len(raw.index) :
          LET last == IF out.op = "html_chart_generator" THEN i + 3 ELSE i
              first == last - Window + 1
          IN  (first >= 1 /\ last <= Len(raw.index)
                 /\ ~WindowComplete(raw, first, last, c))
                 => out.rolled.cell[<<raw.index[i], c>>] = NaN

\* day 1 is missing: the window of day 7 holds it, the window of day 8 not
C17_Witness ==
    /\ out.op = "individual_charts"
    /\ raw.index = << 1, 2, 3, 4, 5, 6, 7, 8 >>
    /\ raw.cell[<<1, AdmEngland>>] = NaN
    /\ out.rolled.cell[<<7, AdmEngland>>] = NaN
    /\ out.rolled.cell[<<8, AdmEngland>>] # NaN

\* C18: rolling(window=1).mean() in trailing mode returns the table it is
\* given: the same rows, the same columns and the same cell everywhere,
\* the missing cells missing.
C18_WindowOneIsIdentity ==
    (out.op = "rolling(window=1)") => out.rolled = raw

C18_Witness ==
    /\ out.op = "rolling(window=1)"
    /\ raw.index = << 1, 2, 3 >>
    /\ raw.cell[<<2, AdmEngland>>] = NaN
    /\ out.rolled.cell[<<2, AdmEngland>>] = NaN
    /\ out.rolled.cell[<<1, AdmEngland>>] = Num(2)

\* C19: no iteration of the loops of individual_charts, dashboard and
\* html_chart_generator.py changes to_plot: its rows, columns and cells
\* after the iteration are those before it.
C19_ChartLoopsLeaveToPlotUnchanged ==
    [][(family = "charts" /\ pc' \in { "charts", "done" }) => raw' = raw]_vars

\* both loops of the chart generator have run over both regions
C19_Witness ==
    /\ pc = "done"
    /\ out.op = "dashboard"
    /\ out.k = 2
    /\ out.region = "London"
    /\ Len(raw.index) = MaxChartRows
    /\ raw.cell[<<1, AdmEngland>>] = Num(1)

\* the place of a region in a list
PlaceIn(seq, r) == CHOOSE j \in 1..Len(seq) : seq[j] = r

\* C20: the region list make_default_dataframes returns holds every column
\* name of the admissions table once and nothing else, has England at its
\* head, and keeps the other regions in the relative order of the columns.
C20_EnglandFirstOthersInOrder ==
    Returned("make_default_dataframes") =>
       LET cols == out.admissions.columns
           regions == out.regions
       IN  /\ Range(regions) = Range(cols)
           /\ Len(regions) = Cardinality(Range(cols))
           /\ regions[1] = "England"
           /\ \A a \in Range(cols) \ {"England"},
                 b \in Range(cols) \ {"England"} :
                 PlaceIn(cols, a) < PlaceIn(cols, b)
                    => PlaceIn(regions, a) < PlaceIn(regions, b)

\* England is the second of three columns
C20_Witness ==
    /\ Returned("make_default_dataframes")
    /\ out.admissions.columns = << "East of England", "England", "London" >>
    /\ out.regions = << "England", "East of England", "London" >>

\* C21: for every date and region, the all_ages view of Cases.metric holds
\* the sum of the u60 and the o60 cell when both views have a number there,
\* and is missing when one of them has none.
C21_AllAgesIsSumOfBands ==
    Returned("Cases.metric") =>
       \A d \in Dates, r \in Range(RegionOrder) :
          LET u == Cell(out.choose_df.u60, d, r)
              o == Cell(out.choose_df.o60, d, r)
              a == Cell(out.choose_df.all_ages, d, r)
          IN  IF IsNum(u) /\ IsNum(o) THEN a = Num(u[1] + o[1]) ELSE a = NaN

\* East Midlands has both bands on day 1, West Midlands the younger only
C21_Witness ==
    /\ Returned("Cases.metric")
    /\ out.metric = "all_ages"
    /\ Cell(out.choose_df.u60, 1, "East Midlands") = Num(2)
    /\ Cell(out.choose_df.o60, 1, "East Midlands") = Num(1)
    /\ Cell(out.table, 1, "East Midlands") = Num(3)
    /\ Cell(out.choose_df.u60, 1, "West Midlands") = Num(1)
    /\ Cell(out.choose_df.o60, 1, "West Midlands") = NaN
    /\ Cell(out.table, 1, "West Midlands") = NaN

\* the composite cell of a view is the sum of the constituents' cells
CompositeOfView(t, d, label, regions) ==
    (IsNum(Cell(t, d, regions[1])) /\ IsNum(Cell(t, d, regions[2])))
       => Cell(t, d, label)
             = Num(Cell(t, d, regions[1])[1] + Cell(t, d, regions[2])[1])

\* C22: in every age view of Cases.metric (u60, o60, all_ages) and on
\* every date on which both constituents have a number in that view, the
\* Midlands cell is the East Midlands cell plus the West Midlands cell of
\* the same view, and the North East and Yorkshire cell the North East cell
\* plus the Yorkshire and The Humber cell.
C22_CompositeCommutesWithAgeSplit ==
    Returned("Cases.metric") =>
       \A d \in Dates, v \in CaseViews :
          /\ CompositeOfView(out.choose_df[v], d, "Midlands", MidlandsRegions)
          /\ CompositeOfView(out.choose_df[v], d, "North East and Yorkshire",
                             NEYRegions)

\* both Midlands constituents have both bands on day 1
C22_Witness ==
    /\ Returned("Cases.metric")
    /\ out.metric = "u60"
    /\ Cell(out.choose_df.u60, 1, "East Midlands") = Num(2)
    /\ Cell(out.choose_df.u60, 1, "West Midlands") = Num(1)
    /\ Cell(out.choose_df.o60, 1, "East Midlands") = Num(1)
    /\ Cell(out.table, 1, "Midlands") = Num(3)
    /\ Cell(out.choose_df.o60, 1, "Midlands") = Num(2)
    /\ Cell(out.choose_df.all_ages, 1, "Midlands") = Num(5)

StepBackDone == family = "zoe.step_back" /\ pc = "done"

\* the dates the search looks at
ProbedDates == 0..(Probes - 1)

\* C23 as stated: Zoe._step_back probes at most 10 days and ends in exactly
\* one of two ways: it returns the table of a file it found, or it raises
\* FileNotFoundError when none of the 10 files exists.
C23_ReturnsTableOrFileNotFound ==
    /\ family = "zoe.step_back" => Len(out.probed) <= Probes
    /\ StepBackDone =>
         \/ /\ out.err = "none"
            /\ \E d \in raw.files \cap ProbedDates : out.table = ZoeFile(d)
         \/ /\ out.err = "FileNotFoundError"
            /\ raw.files \cap ProbedDates = {}

\* C23 (amended): Zoe._step_back probes at most 10 days and ends in exactly
\* one of three ways: it returns the table of a file it found; it raises
\* FileNotFoundError when none of the 10 files exists; or the error of a
\* read that failed for another reason than a missing file leaves it
\* (ImportError re-raised, any other error uncaught).  It never returns
\* without a table.
C23_ReturnsTableOrFileNotFoundOrReadError ==
    /\ family = "zoe.step_back" => Len(out.probed) <= Probes
    /\ StepBackDone =>
         \/ /\ out.err = "none"
            /\ raw.fault = "none"
            /\ \E d \in raw.files \cap ProbedDates : out.table = ZoeFile(d)
         \/ /\ out.err = "FileNotFoundError"
            /\ raw.files \cap ProbedDates = {}
            /\ out.table = EmptyTable
         \/ /\ out.err \in { "ImportError", "EmptyDataError" }
            /\ out.err = raw.fault
            /\ out.table = EmptyTable

\* gcsfs is missing while files exist: the search ends with ImportError
C23_Witness ==
    /\ StepBackDone
    /\ raw.fault = "ImportError"
    /\ raw.files = {3, 5}
    /\ out.err = "ImportError"

\* C28: Zoe._step_back probes today, then one day older each time, stops at
\* the first date that has a file, so a returned table is that of the most
\* recent date of today-9..today with a file; a date of today-10 or older is
\* never probed.
C28_ProbesNewestFirstAndStops ==
    family = "zoe.step_back" =>
       /\ out.probed = [k \in 1..Len(out.probed) |-> k - 1]
       /\ Range(out.probed) \subseteq ProbedDates
       /\ \A k \in 1..(Len(out.probed) - 1) : out.probed[k] \notin raw.files
       /\ (pc = "done" /\ out.err = "none") =>
             /\ out.table = ZoeFile(out.probed[Len(out.probed)])
             /\ out.table.file \in raw.files
             /\ \A d \in raw.files : d >= out.table.file

\* files of 4, 7 and 10 days ago: the search returns the one of 4 days ago
C28_Witness ==
    /\ StepBackDone
    /\ raw = [files |-> {4, 7, 10}, fault |-> "none"]
    /\ out.probed = <<0, 1, 2, 3, 4>>
    /\ out.table = ZoeFile(4)

\* C24: in a run of a chart generator a chart file is written only after
\* all four sources were fetched and normalized without error and the
\* aggregated table was built; a run in which a fetch or a normalizer fails
\* ends with that error and without a file.
C24_NoChartBeforeAllSourcesBuilt ==
    family = "run" =>
       /\ out.files # << >> =>
             /\ out.fetched = Range(BuildOrder)
             /\ out.normalized = Range(BuildOrder)
             /\ out.aggregated
             /\ out.err = "none"
       /\ (pc = "done" /\ \E s \in Range(BuildOrder) : s \in Range(out.built) /\ raw[s] # "ok")
             => (out.files = << >> /\ out.err \in { "fetch", "normalize" })

\* the cases normalizer fails after three sources were built: no file
C24_Witness ==
    /\ family = "run"
    /\ pc = "done"
    /\ raw.generator = "html_chart_generator"
    /\ raw.cases = "normalize"
    /\ out.built = BuildOrder
    /\ out.normalized = { "zoe", "deaths", "healthcare" }
    /\ out.err = "normalize"
    /\ out.files = << >>

\* C25 (as claimed): every normalizer leaves the raw table it is given
\* unchanged: after Zoe._process_data, Deaths._process_data,
\* Healthcare._process_data or Cases._process_data the caller's raw table
\* has the columns, rows and values it had before the call.
C25_NormalizerLeavesRawUnchanged ==
    [][(pc = "fetch" /\ pc' = "done" /\ out'.op \in NormalizerOps)
          => raw' = raw]_vars

\* no value occurs twice in a sequence
NoRepeat(s) == Cardinality(Range(s)) = Len(s)

\* unique date rows, unique region columns, one cell per (date, region)
UniqueKeys(t) ==
    /\ NoRepeat(t.index)
    /\ NoRepeat(t.columns)
    /\ DOMAIN t.cell = Range(t.index) \X Range(t.columns)

\* the canonical tables an operation returned
ReturnedTables ==
    CASE out.op \in { "Zoe._process_data", "Deaths._process_data" } -> { out.table }
      [] out.op = "make_default_dataframes" -> { out.admissions }
      [] out.op = "Cases.metric" ->
            { out.table } \cup { out.choose_df[v] : v \in CaseViews }
      [] OTHER -> {}

RowsOfKey(i) ==
    Cardinality({ j \in 1..Len(raw) :
                    raw[j].date = raw[i].date /\ raw[j].region = raw[i].region })

C27_FetchOnce ==
    family \in ObjectClasses =>
       /\ pc = "new" => raw.calls = << >>
       /\ pc = "ready" =>
             raw.calls = IF family = "Healthcare"
                         THEN << "healthcare (regions)", "healthcare (england)" >>
                         ELSE << "cases" >>
       /\ \A i, j \in 1..Len(out.history) :
             out.history[i].metric = out.history[j].metric
                => out.history[i].table = out.history[j].table

\* admissions, inpatients and admissions again on a Healthcare object
C27_Witness ==
    /\ family = "Healthcare"
    /\ pc = "ready"
    /\ Len(raw.calls) = 2
    /\ Len(out.history) = 3
    /\ out.history[1].metric = "admissions"
    /\ out.history[2].metric = "inpatients"
    /\ out.history[3].metric = "admissions"
    /\ Cell(out.history[3].table, 1, "London") = Num(3)
    /\ Cell(out.history[3].table, 1, "England") = Num(1)

\* C29 (as claimed): the assertion len(variable_list) == len(color_list) of
\* the HTML chart loop holds on every iteration: for every region of the
\* list, the labels of the aggregated table that have a column for the
\* region, Inpatients not counted, are exactly 5.
C29_AssertionHolds ==
    (out.op = "html_chart_generator") =>
       /\ Len(out.variable_list) = Len(color_list)
       /\ out.err = "none"

\* C30: when the admissions table has no England column,
\* make_default_dataframes fails with an error at the region selection and
\* returns neither a region list nor an aggregated table; a region list it
\* returns has England, and has it first.
C30_NoEnglandColumnFails ==
    (pc = "done" /\ out.op = "make_default_dataframes") =>
       /\ "England" \notin Range(out.admissions.columns)
             => /\ out.err = "ValueError"
                /\ DOMAIN out = { "op", "admissions", "err" }
       /\ out.err = "none"
             => /\ "England" \in Range(out.regions)
                /\ out.regions[1] = "England"

\* the admissions table has the columns East of England and London only
C30_Witness ==
    /\ pc = "done"
    /\ out.op = "make_default_dataframes"
    /\ out.admissions.columns = << "East of England", "London" >>
    /\ out.err = "ValueError"
    /\ DOMAIN out = { "op", "admissions", "err" }

====
